---- MODULE Spec2Model ----
(***************************************************************************)
(* A model of gff_stats.py: parse_gff_line, calculate_length and           *)
(* process_gff.  A text line is a sequence of one-character strings, a     *)
(* file is a sequence of lines, a Python dict is a function on its set of  *)
(* keys, and a float with one decimal place is the integer number of its   *)
(* tenths (8.3 is 83).                                                     *)
(***************************************************************************)
EXTENDS Integers, Sequences, FiniteSets

\* ------------------------------------------------------------ characters

TAB == "\t"
SP == " "
NL == "\n"
CR == "\r"
HASH == "#"
UNDERSCORE == "_"

\* the characters str.strip() and int() treat as blank
Whitespace == {SP, TAB, NL, CR}

Digits == {"0", "1", "2", "3", "4", "5", "6", "7", "8", "9"}

DigitValue(c) ==
    CASE c = "0" -> 0 [] c = "1" -> 1 [] c = "2" -> 2 [] c = "3" -> 3
      [] c = "4" -> 4 [] c = "5" -> 5 [] c = "6" -> 6 [] c = "7" -> 7
      [] c = "8" -> 8 [] c = "9" -> 9

\* Python's None; also the value slot of a parse that yields no record
None == <<"None">>

\* ------------------------------------------------------------ str methods

\* s.strip(): s without its leading and trailing blanks
Strip(s) ==
    LET keep == {i \in 1..Len(s) : s[i] \notin Whitespace}
    IN  IF keep = {} THEN <<>>
        ELSE LET first == CHOOSE i \in keep : \A j \in keep : i <= j
                 last == CHOOSE i \in keep : \A j \in keep : j <= i
             IN  SubSeq(s, first, last)

\* s.startswith(c) for a one-character prefix c
StartsWith(s, c) == Len(s) > 0 /\ s[1] = c

RECURSIVE Split(_, _)
\* s.split(sep): the pieces of s between the occurrences of sep
Split(s, sep) ==
    LET at == {i \in 1..Len(s) : s[i] = sep}
    IN  IF at = {} THEN <<s>>
        ELSE LET i == CHOOSE k \in at : \A j \in at : k <= j
             IN  <<SubSeq(s, 1, i - 1)>> \o Split(SubSeq(s, i + 1, Len(s)), sep)

\* ------------------------------------------------------------ int()

\* the text of an integer literal without its blanks and its sign
IntBody(s) ==
    LET t == Strip(s)
    IN  IF Len(t) > 0 /\ t[1] \in {"+", "-"} THEN SubSeq(t, 2, Len(t)) ELSE t

\* int(s) succeeds: digits, single underscores only between digits
IsInt(s) ==
    LET b == IntBody(s)
    IN  /\ Len(b) > 0
        /\ \A i \in 1..Len(b) : b[i] \in Digits \cup {UNDERSCORE}
        /\ b[1] \in Digits
        /\ b[Len(b)] \in Digits
        /\ \A i \in 1..(Len(b) - 1) : ~(b[i] = UNDERSCORE /\ b[i + 1] = UNDERSCORE)

RECURSIVE DecimalValue(_)
\* the value of a run of digits and underscores, most significant first
DecimalValue(b) ==
    IF Len(b) = 0 THEN 0
    ELSE LET front == SubSeq(b, 1, Len(b) - 1)
             c == b[Len(b)]
         IN  IF c = UNDERSCORE THEN DecimalValue(front)
             ELSE 10 * DecimalValue(front) + DigitValue(c)

\* int(s), defined where IsInt(s)
IntValue(s) ==
    LET t == Strip(s)
        v == DecimalValue(IntBody(s))
    IN  IF Len(t) > 0 /\ t[1] = "-" THEN 0 - v ELSE v

\* ------------------------------------------------------------ parse_gff_line

MinFields == 8

\* MakeFeature with 'end' read from the start column
MakeFeatureEndFromStart(fields) ==
    [seqname |-> fields[1],
     source |-> fields[2],
     feature |-> fields[3],
     start |-> IntValue(fields[4]),
     end |-> IntValue(fields[4]),
     score |-> fields[6],
     strand |-> fields[7],
     frame |-> fields[8],
     attributes |-> IF Len(fields) > 8 THEN fields[9] ELSE <<>>]

\* the record parse_gff_line builds from the fields of a line
MakeFeature(fields) ==
    [seqname |-> fields[1],
     source |-> fields[2],
     feature |-> fields[3],
     start |-> IntValue(fields[4]),
     end |-> IntValue(fields[5]),
     score |-> fields[6],
     strand |-> fields[7],
     frame |-> fields[8],
     attributes |-> IF Len(fields) > 8 THEN fields[9] ELSE <<>>]

\* parse_gff_line converting start and end before it counts the fields
parse_gff_line_eager(line) ==
    LET stripped == Strip(line)
        fields == Split(stripped, TAB)
    IN  IF stripped = <<>> \/ StartsWith(stripped, HASH)
        THEN [tag |-> "None", value |-> None]
        ELSE IF \/ Len(fields) >= 4 /\ ~IsInt(fields[4])
                \/ Len(fields) >= 5 /\ ~IsInt(fields[5])
        THEN [tag |-> "ValueError", value |-> None]
        ELSE IF Len(fields) < MinFields
        THEN [tag |-> "None", value |-> None]
        ELSE [tag |-> "dict", value |-> MakeFeature(fields)]

\* parse_gff_line skipping a line whose start or end is no integer
parse_gff_line_lenient(line) ==
    LET stripped == Strip(line)
        fields == Split(stripped, TAB)
    IN  IF stripped = <<>> \/ StartsWith(stripped, HASH)
        THEN [tag |-> "None", value |-> None]
        ELSE IF Len(fields) < MinFields
        THEN [tag |-> "None", value |-> None]
        ELSE IF ~IsInt(fields[4]) \/ ~IsInt(fields[5])
        THEN [tag |-> "None", value |-> None]
        ELSE [tag |-> "dict", value |-> MakeFeature(fields)]

\* parse_gff_line without the test for a comment
parse_gff_line_no_comment(line) ==
    LET stripped == Strip(line)
        fields == Split(stripped, TAB)
    IN  IF stripped = <<>>
        THEN [tag |-> "None", value |-> None]
        ELSE IF Len(fields) < MinFields
        THEN [tag |-> "None", value |-> None]
        ELSE IF ~IsInt(fields[4]) \/ ~IsInt(fields[5])
        THEN [tag |-> "ValueError", value |-> None]
        ELSE [tag |-> "dict", value |-> MakeFeature(fields)]

\* parse_gff_line(line), tagged by its outcome: "None" (the line is skipped),
\* "dict" (value is the feature) or "ValueError" (int() raised)
parse_gff_line(line) ==
    LET stripped == Strip(line)
        fields == Split(stripped, TAB)
    IN  IF stripped = <<>> \/ StartsWith(stripped, HASH)
        THEN [tag |-> "None", value |-> None]
        ELSE IF Len(fields) < MinFields
        THEN [tag |-> "None", value |-> None]
        ELSE IF ~IsInt(fields[4]) \/ ~IsInt(fields[5])
        THEN [tag |-> "ValueError", value |-> None]
        ELSE [tag |-> "dict", value |-> MakeFeature(fields)]

\* calculate_length without the + 1 of inclusive coordinates
calculate_length_exclusive(feature) == feature.end - feature.start

\* calculate_length(feature)
calculate_length(feature) == feature.end - feature.start + 1

\* ------------------------------------------------------------ round(s / n, 1)

RECURSIVE FloorLog2(_)
\* the largest e with 2^e <= y, for y >= 1
FloorLog2(y) == IF y < 2 THEN 0 ELSE 1 + FloorLog2(y \div 2)

RECURSIVE ShiftsTo20(_)
\* the least j with m * 2^j >= 20, for m >= 1
ShiftsTo20(m) == IF m >= 20 THEN 0 ELSE 1 + ShiftsTo20(2 * m)

\* the binary exponent of the double nearest m/20: 2^e <= m/20 < 2^(e+1)
BinaryExponent(m) ==
    IF m >= 20 THEN FloorLog2(m \div 20) ELSE 0 - ShiftsTo20(m)

\* 2^j modulo 5
Pow2Mod5(j) == CASE j % 4 = 0 -> 1 [] j % 4 = 1 -> 2 [] j % 4 = 2 -> 4 [] j % 4 = 3 -> 3

\* The quotient m/20 (m odd, not a multiple of 5) is no double; a double keeps
\* 52 - e bits after the binary point, and the division rounds to the nearest
\* one.  It rounds away from zero iff the fraction cut off, which is
\* ((2^(50 - e) * m) mod 5) / 5 of the last bit, is more than one half.
DivisionRoundsUp(m) == (Pow2Mod5(50 - BinaryExponent(m)) * m) % 5 \in {3, 4}

\* rounding the exact quotient with a tie going away from zero
RoundTenthsHalfUp(s, n) ==
    LET a == IF s < 0 THEN 0 - s ELSE s
        sign == IF s < 0 THEN 0 - 1 ELSE 1
        lo == (10 * a) \div n
        twice == 2 * ((10 * a) % n)
    IN  sign * (IF twice < n THEN lo ELSE lo + 1)

\* round(s / n, 1) in tenths, for integers s and n > 0: s / n is the double
\* nearest the quotient, and round() gives the tenth nearest that double, the
\* even one when the double is exactly half way
RoundTenths(s, n) ==
    LET a == IF s < 0 THEN 0 - s ELSE s
        sign == IF s < 0 THEN 0 - 1 ELSE 1
        lo == (10 * a) \div n
        twice == 2 * ((10 * a) % n)
        m == 2 * lo + 1
        mag == IF twice < n THEN lo
               ELSE IF twice > n THEN lo + 1
               ELSE IF m % 5 = 0 THEN (IF lo % 2 = 0 THEN lo ELSE lo + 1)
               ELSE IF DivisionRoundsUp(m) THEN lo + 1 ELSE lo
    IN  sign * mag

\* ------------------------------------------------------------ statistics

\* the keys feature[key] takes over the list
KeysOf(features, key) == {features[i][key] : i \in 1..Len(features)}

\* by_type with = 1 for += 1
by_type_assigned(features) ==
    [t \in KeysOf(features, "feature") |-> 1]

\* by_type: a defaultdict(int) incremented once per feature
by_type(features) ==
    [t \in KeysOf(features, "feature") |->
        Cardinality({i \in 1..Len(features) : features[i].feature = t})]

\* lengths_by_type: for each type the lengths of its features, in file order
lengths_by_type(features) ==
    [t \in KeysOf(features, "feature") |->
        LET OfType(f) == f.feature = t
            own == SelectSeq(features, OfType)
        IN  [i \in 1..Len(own) |-> calculate_length(own[i])]]

RECURSIVE sum(_)
\* sum(lengths)
sum(lengths) ==
    IF Len(lengths) = 0 THEN 0 ELSE lengths[1] + sum(Tail(lengths))

\* avg_length dividing by the number of all features
avg_length_of_all(features) ==
    LET lengths == lengths_by_type(features)
    IN  [t \in DOMAIN lengths |-> RoundTenths(sum(lengths[t]), Len(features))]

\* avg_length[t] = round(sum(lengths) / len(lengths), 1)
avg_length(features) ==
    LET lengths == lengths_by_type(features)
    IN  [t \in DOMAIN lengths |-> RoundTenths(sum(lengths[t]), Len(lengths[t]))]

\* strand_distribution: a defaultdict(int) incremented once per feature
strand_distribution(features) ==
    [d \in KeysOf(features, "strand") |->
        Cardinality({i \in 1..Len(features) : features[i].strand = d})]

\* the result dictionary of process_gff
Result(features) ==
    [total_features |-> Len(features),
     by_type |-> by_type(features),
     avg_length |-> avg_length(features),
     strand_distribution |-> strand_distribution(features)]

\* the filter test left out
RetainedAlways(feature, filter_type) == TRUE

\* the filter test of process_gff on a parsed feature
Retained(feature, filter_type) ==
    filter_type = None \/ feature.feature = filter_type

\* ------------------------------------------------------------ inputs

MaxLines == 3
RunLen == 20
MaxFields == 10

RECURSIVE Join(_, _)
\* sep.join(fields)
Join(fields, sep) ==
    IF Len(fields) = 0 THEN <<>>
    ELSE IF Len(fields) = 1 THEN fields[1]
    ELSE fields[1] \o <<sep>> \o Join(Tail(fields), sep)

\* a line of a file: the fields joined by tabs, and the line break
Row(fields) == Join(fields, TAB) \o <<NL>>

\* gene 1..2 on +, no attributes: length 2
GeneA == Row(<< <<"s">>, <<"r">>, <<"g">>, <<"1">>, <<"2">>, <<".">>, <<"+">>, <<".">> >>)
\* gene 1..3 on -, with attributes: length 3
GeneB == Row(<< <<"s">>, <<"r">>, <<"g">>, <<"1">>, <<"3">>, <<".">>, <<"-">>, <<".">>, <<"a">> >>)
\* gene 1..1: length 1
GeneOne == Row(<< <<"s">>, <<"r">>, <<"g">>, <<"1">>, <<"1">>, <<".">>, <<"+">>, <<".">> >>)
\* gene 1..0, end before start: length 0
GeneZero == Row(<< <<"s">>, <<"r">>, <<"g">>, <<"1">>, <<"0">>, <<".">>, <<"-">>, <<".">> >>)
\* CDS 5..1, end before start: length -3
CdsBack == Row(<< <<"s">>, <<"r">>, <<"c">>, <<"5">>, <<"1">>, <<".">>, <<"+">>, <<"0">> >>)
\* a feature line commented out
Comment == <<HASH>> \o GeneA
\* four fields, the fourth no integer
Short == Row(<< <<"s">>, <<"r">>, <<"g">>, <<"x">> >>)
\* eight fields, start no integer
Bad == Row(<< <<"s">>, <<"r">>, <<"c">>, <<"x">>, <<"1">>, <<".">>, <<"+">>, <<".">> >>)
\* a blank line
Blank == <<SP, NL>>

Pool == {GeneA, GeneB, CdsBack, Comment, Short, Bad, Blank}

RECURSIVE FilesUpTo(_)
\* the files of at most n lines of the pool
FilesUpTo(n) ==
    IF n = 0 THEN {<<>>}
    ELSE LET shorter == FilesUpTo(n - 1)
         IN  shorter \cup {Append(f, l) : f \in shorter, l \in Pool}

\* n copies of a line
Repeat(l, n) == [i \in 1..n |-> l]

RunPairs == {<<GeneA, GeneB>>, <<GeneZero, GeneOne>>}

\* the files of RunLen lines of one type and two lengths
RunFiles == {Repeat(p[1], i) \o Repeat(p[2], RunLen - i) : p \in RunPairs, i \in 0..RunLen}

Files == FilesUpTo(MaxLines) \cup RunFiles

\* the --filter-type values: two types of the pool and one that never occurs
FilterTypes == {<<"g">>, <<"c">>, <<"z">>}

\* the texts tried in field k (from 1) of a line handed to parse_gff_line
FieldTexts(k) ==
    CASE k = 1 -> {<<"s">>, <<HASH, "s">>, <<>>}
      [] k = 3 -> {<<"g">>, <<"c">>}
      [] k = 4 -> {<<"1", "0">>, <<"-", "2">>, <<SP, "7">>, <<"x">>, <<>>, <<"1", ".", "5">>}
      [] k = 5 -> {<<"2">>, <<"+", "3">>, <<"x">>}
      [] k = 7 -> {<<"+">>, <<"-">>}
      [] k = 8 -> {<<".">>, <<>>}
      [] k = 9 -> {<<"a">>, <<>>}
      [] OTHER -> {<<"r">>}

RECURSIVE FieldLists(_)
\* the lists of n fields
FieldLists(n) ==
    IF n = 0 THEN {<<>>}
    ELSE {Append(fs, t) : fs \in FieldLists(n - 1), t \in FieldTexts(n)}

\* the lines handed to parse_gff_line: up to MaxFields fields, with or without
\* blanks around them and a line break
ParseLines ==
    {pre \o Join(fs, TAB) \o suf :
        pre \in {<<>>, <<SP>>, <<TAB>>},
        suf \in {<<>>, <<NL>>, <<SP, NL>>, <<TAB, NL>>},
        fs \in UNION {FieldLists(n) : n \in 0..MaxFields}}

\* ------------------------------------------------------------ state

VARIABLES
    gff_file,        \* the lines of the input file
    filter_arg,      \* the type the filtered call is given
    call,            \* 1: process_gff(gff_file, filter_arg); 2: process_gff(gff_file)
    filter_type,     \* process_gff's parameter in the current call
    pc,              \* where the run is
    f_open,          \* the handle f of the with statement is open
    pos,             \* the number of the next line the for loop reads
    line,            \* the line read last
    parsed,          \* parse_gff_line's result for it
    features,        \* the list the loop fills
    stats_filtered,  \* what call 1 returned
    stats_all        \* what call 2 returned

vars == <<gff_file, filter_arg, call, filter_type, pc, f_open, pos, line, parsed,
          features, stats_filtered, stats_all>>

Init ==
    /\ gff_file \in Files
    /\ filter_arg \in FilterTypes
    /\ call = 1
    /\ filter_type = filter_arg
    /\ pc = "call"
    /\ f_open = FALSE
    /\ pos = 1
    /\ line = <<>>
    /\ parsed = [tag |-> "None", value |-> None]
    /\ features = <<>>
    /\ stats_filtered = None
    /\ stats_all = None

\* features = [] and the entry of the with statement: open(gff_file, 'r')
Enter ==
    /\ pc = "call"
    /\ features' = <<>>
    /\ f_open' = TRUE
    /\ pos' = 1
    /\ pc' = "loop"
    /\ UNCHANGED <<gff_file, filter_arg, call, filter_type, line, parsed,
                   stats_filtered, stats_all>>

\* one turn of the for loop in which parse_gff_line returns
ReadLine ==
    /\ pc = "loop"
    /\ pos <= Len(gff_file)
    /\ LET p == parse_gff_line(gff_file[pos])
       IN  /\ p.tag # "ValueError"
           /\ line' = gff_file[pos]
           /\ parsed' = p
           /\ features' = IF p.tag = "dict" /\ Retained(p.value, filter_type)
                          THEN Append(features, p.value)
                          ELSE features
    /\ pos' = pos + 1
    /\ UNCHANGED <<gff_file, filter_arg, call, filter_type, pc, f_open,
                   stats_filtered, stats_all>>

\* the exception leaving process_gff with f still open, as without the with
ParseErrorLeavingOpen ==
    /\ pc = "loop"
    /\ pos <= Len(gff_file)
    /\ LET p == parse_gff_line(gff_file[pos])
       IN  /\ p.tag = "ValueError"
           /\ line' = gff_file[pos]
           /\ parsed' = p
    /\ pos' = pos + 1
    /\ pc' = "raised"
    /\ UNCHANGED <<gff_file, filter_arg, call, filter_type, f_open, features,
                   stats_filtered, stats_all>>

\* one turn of the for loop in which int() raises: the with statement closes
\* f and the exception leaves process_gff
ParseError ==
    /\ pc = "loop"
    /\ pos <= Len(gff_file)
    /\ LET p == parse_gff_line(gff_file[pos])
       IN  /\ p.tag = "ValueError"
           /\ line' = gff_file[pos]
           /\ parsed' = p
    /\ pos' = pos + 1
    /\ f_open' = FALSE
    /\ pc' = "raised"
    /\ UNCHANGED <<gff_file, filter_arg, call, filter_type, features,
                   stats_filtered, stats_all>>

\* the for loop ends at the end of the file and the with statement closes f
EndOfFile ==
    /\ pc = "loop"
    /\ pos > Len(gff_file)
    /\ f_open' = FALSE
    /\ pc' = "stats"
    /\ UNCHANGED <<gff_file, filter_arg, call, filter_type, pos, line, parsed,
                   features, stats_filtered, stats_all>>

\* the filtered call computes its statistics and returns; the unfiltered call
\* over the same file comes next
ReturnFiltered ==
    /\ pc = "stats"
    /\ call = 1
    /\ stats_filtered' = Result(features)
    /\ call' = 2
    /\ filter_type' = None
    /\ pc' = "call"
    /\ UNCHANGED <<gff_file, filter_arg, f_open, pos, line, parsed, features, stats_all>>

\* the unfiltered call computes its statistics and returns
ReturnAll ==
    /\ pc = "stats"
    /\ call = 2
    /\ stats_all' = Result(features)
    /\ pc' = "done"
    /\ UNCHANGED <<gff_file, filter_arg, call, filter_type, f_open, pos, line, parsed,
                   features, stats_filtered>>

Next == Enter \/ ReadLine \/ ParseError \/ EndOfFile \/ ReturnFiltered \/ ReturnAll

Spec == Init /\ [][Next]_vars

\* ------------------------------------------------------------ parse_gff_line alone

InitParse ==
    /\ line \in ParseLines
    /\ parsed = [tag |-> "None", value |-> None]
    /\ pc = "parse"
    /\ gff_file = <<>>
    /\ filter_arg = None
    /\ call = 0
    /\ filter_type = None
    /\ f_open = FALSE
    /\ pos = 1
    /\ features = <<>>
    /\ stats_filtered = None
    /\ stats_all = None

\* a call of parse_gff_line(line)
ParseLine ==
    /\ pc = "parse"
    /\ parsed' = parse_gff_line(line)
    /\ pc' = "parsed"
    /\ UNCHANGED <<gff_file, filter_arg, call, filter_type, f_open, pos, line,
                   features, stats_filtered, stats_all>>

NextParse == ParseLine

SpecParse == InitParse /\ [][NextParse]_vars

\* ------------------------------------------------------------ properties

RECURSIVE Trimmed(_)
\* a line without the blanks at its two ends, one blank at a time
Trimmed(t) ==
    IF Len(t) = 0 THEN t
    ELSE IF t[1] \in Whitespace THEN Trimmed(Tail(t))
    ELSE IF t[Len(t)] \in Whitespace THEN Trimmed(SubSeq(t, 1, Len(t) - 1))
    ELSE t

\* the places of the tabs of t
TabsOf(t) == {i \in 1..Len(t) : t[i] = TAB}

\* the number of tab-separated fields of t
FieldCount(t) == Cardinality(TabsOf(t)) + 1

\* the place of the k-th tab of t; 0 before the first, Len(t) + 1 after the last
TabPlace(t, k) ==
    IF k = 0 THEN 0
    ELSE IF k > Cardinality(TabsOf(t)) THEN Len(t) + 1
    ELSE CHOOSE i \in TabsOf(t) : Cardinality({j \in TabsOf(t) : j < i}) = k - 1

\* the k-th tab-separated field of t, from 1
NthField(t, k) == SubSeq(t, TabPlace(t, k - 1) + 1, TabPlace(t, k) - 1)

\* the record holds the fields of t, start and end as integers
HoldsFieldsOf(rec, t) ==
    /\ rec.seqname = NthField(t, 1)
    /\ rec.source = NthField(t, 2)
    /\ rec.feature = NthField(t, 3)
    /\ rec.start = IntValue(NthField(t, 4))
    /\ rec.end = IntValue(NthField(t, 5))
    /\ rec.score = NthField(t, 6)
    /\ rec.strand = NthField(t, 7)
    /\ rec.frame = NthField(t, 8)
    /\ rec.attributes = (IF FieldCount(t) >= 9 THEN NthField(t, 9) ELSE <<>>)

\* t has at least 8 fields, the fourth and fifth of them integers
WellFormed(t) ==
    /\ FieldCount(t) >= 8
    /\ IsInt(NthField(t, 4))
    /\ IsInt(NthField(t, 5))

\* t is neither empty nor a comment
IsData(t) == Len(t) > 0 /\ t[1] # HASH

RECURSIVE SumValues(_)
\* sum(d.values())
SumValues(d) ==
    IF DOMAIN d = {} THEN 0
    ELSE LET k == CHOOSE x \in DOMAIN d : TRUE
         IN  d[k] + SumValues([x \in DOMAIN d \ {k} |-> d[x]])

\* the filtered call has returned stats_filtered
FilteredReturned == call = 2
\* the unfiltered call has returned stats_all
AllReturned == pc = "done"
\* features is the list of the call that returned stats_filtered
JustFiltered == call = 2 /\ pc = "call"

\* total_features is the sum of either mapping's values
TotalsAgree(stats) ==
    /\ stats.total_features = SumValues(stats.by_type)
    /\ stats.total_features = SumValues(stats.strand_distribution)

\* C1: when process_gff returns a result, with or without a type filter,
\* total_features equals the sum of the values of by_type and the sum of the
\* values of strand_distribution.
C1_TotalsAgree ==
    /\ FilteredReturned => TotalsAgree(stats_filtered)
    /\ AllReturned => TotalsAgree(stats_all)

C1_Witness ==
    /\ AllReturned
    /\ stats_filtered.total_features >= 1
    /\ stats_all.total_features > stats_filtered.total_features
    /\ Cardinality(DOMAIN stats_all.by_type) >= 2
    /\ Cardinality(DOMAIN stats_all.strand_distribution) >= 2
    /\ \E t \in DOMAIN stats_all.by_type : stats_all.by_type[t] >= 2

\* C2: the run with filter T returns by_type = {T: n} and total_features = n,
\* n being the count of T in the unfiltered run over the same file; when T
\* does not occur, by_type has no key T and total_features is 0.
C2_FilterCounts ==
    AllReturned =>
        IF filter_arg \in DOMAIN stats_all.by_type
        THEN /\ DOMAIN stats_filtered.by_type = {filter_arg}
             /\ stats_filtered.by_type[filter_arg] = stats_all.by_type[filter_arg]
             /\ stats_filtered.total_features = stats_all.by_type[filter_arg]
        ELSE /\ filter_arg \notin DOMAIN stats_filtered.by_type
             /\ stats_filtered.total_features = 0

C2_Witness ==
    /\ AllReturned
    /\ filter_arg \in DOMAIN stats_all.by_type
    /\ stats_all.by_type[filter_arg] >= 2
    /\ Cardinality(DOMAIN stats_all.by_type) >= 2

\* C3: for a type T present in the file, avg_length[T] of the run with filter
\* T equals avg_length[T] of the run without a filter.
C3_FilteredAverage ==
    AllReturned /\ filter_arg \in DOMAIN stats_all.by_type =>
        stats_filtered.avg_length[filter_arg] = stats_all.avg_length[filter_arg]

C3_Witness ==
    /\ AllReturned
    /\ filter_arg \in DOMAIN stats_all.avg_length
    /\ stats_all.by_type[filter_arg] >= 2
    /\ stats_all.total_features > stats_all.by_type[filter_arg]
    /\ stats_filtered.avg_length[filter_arg] # 0

\* C4, as stated: every line with at least 8 tab-separated fields whose fields
\* 3 and 4 are integers parses to a record holding the fields of the line.
C4_RoundTripOfLine ==
    pc = "parsed" /\ WellFormed(line) =>
        parsed.tag = "dict" /\ HoldsFieldsOf(parsed.value, line)

\* C4, amended: every line whose trimmed content is neither empty nor a
\* comment and has at least 8 tab-separated fields, the fourth and fifth of
\* them integers, parses to a record holding the fields of the trimmed
\* content, attributes being empty when there is no ninth field.
C4_RoundTripOfTrimmed ==
    pc = "parsed" /\ IsData(Trimmed(line)) /\ WellFormed(Trimmed(line)) =>
        parsed.tag = "dict" /\ HoldsFieldsOf(parsed.value, Trimmed(line))

C4_Witness ==
    /\ pc = "parsed"
    /\ IsData(Trimmed(line))
    /\ WellFormed(Trimmed(line))
    /\ Trimmed(line) # line
    /\ line[1] \in Whitespace
    /\ FieldCount(Trimmed(line)) = 8
    /\ parsed.tag = "dict"
    /\ parsed.value.attributes = <<>>
    /\ parsed.value.start # parsed.value.end

\* C5: a line that is empty after trimming, or whose trimmed content begins
\* with '#', or that has fewer than 8 tab-separated fields parses to None:
\* no record and no error, also when field 3 or 4 is there and no integer.
C5_SkippedLines ==
    pc = "parsed" /\ (\/ ~IsData(Trimmed(line))
                      \/ FieldCount(line) < 8
                      \/ FieldCount(Trimmed(line)) < 8) =>
        parsed.tag = "None"

C5_Witness ==
    /\ pc = "parsed"
    /\ IsData(Trimmed(line))
    /\ FieldCount(Trimmed(line)) \in 5..7
    /\ ~IsInt(NthField(Trimmed(line), 4))
    /\ ~IsInt(NthField(Trimmed(line), 5))
    /\ parsed.tag = "None"

\* a line that is data, has at least 8 fields, and whose start or end is no integer
IsBadLine(l) ==
    LET t == Trimmed(l)
    IN  /\ IsData(t)
        /\ FieldCount(t) >= 8
        /\ ~IsInt(NthField(t, 4)) \/ ~IsInt(NthField(t, 5))

BadPlaces == {i \in 1..Len(gff_file) : IsBadLine(gff_file[i])}

LengthSum(feats, t) ==
    LET Own == {i \in 1..Len(feats) : feats[i].feature = t}
        Lengths == [i \in Own |-> feats[i].end - feats[i].start + 1]
    IN  SumValues(Lengths)

LengthCount(feats, t) == Cardinality({i \in 1..Len(feats) : feats[i].feature = t})

\* the quotient s / n in tenths, a tie going to the even tenth
HalfEvenTenths(s, n) ==
    LET q == (10 * s) \div n
        r == (10 * s) % n
    IN  IF 2 * r < n THEN q
        ELSE IF 2 * r > n THEN q + 1
        ELSE IF q % 2 = 0 THEN q ELSE q + 1

\* every type of feats has its half-even mean in avg_length
MeansHalfEven(stats, feats) ==
    /\ DOMAIN stats.avg_length = {feats[i].feature : i \in 1..Len(feats)}
    /\ \A t \in DOMAIN stats.avg_length :
          stats.avg_length[t] = HalfEvenTenths(LengthSum(feats, t), LengthCount(feats, t))

\* C7, as stated: avg_length[T] is the mean of end - start + 1 over the
\* retained records of type T, rounded to one decimal place, a tie going to
\* the even digit.
C7_MeanHalfEven ==
    /\ JustFiltered => MeansHalfEven(stats_filtered, features)
    /\ AllReturned => MeansHalfEven(stats_all, features)

\* what round(m / 20, 1) is in CPython, in tenths, for the odd m below 80 that
\* are no multiples of 5: the ties whose quotient is no double
RoundOfTwentieths(m) ==
    CASE m = 1 -> 1 [] m = 3 -> 1 [] m = 7 -> 3 [] m = 9 -> 5 [] m = 11 -> 6
      [] m = 13 -> 7 [] m = 17 -> 8 [] m = 19 -> 9 [] m = 21 -> 11 [] m = 23 -> 11
      [] m = 27 -> 14 [] m = 29 -> 14 [] m = 31 -> 16 [] m = 33 -> 16 [] m = 37 -> 19
      [] m = 39 -> 19 [] m = 41 -> 20 [] m = 43 -> 21 [] m = 47 -> 24 [] m = 49 -> 25
      [] m = 51 -> 25 [] m = 53 -> 26 [] m = 57 -> 29 [] m = 59 -> 30 [] m = 61 -> 30
      [] m = 63 -> 31 [] m = 67 -> 34 [] m = 69 -> 35 [] m = 71 -> 35 [] m = 73 -> 36
      [] m = 77 -> 39 [] m = 79 -> 40
      [] OTHER -> 0 - 1

\* v tenths is s / n rounded as round(s / n, 1) rounds it
MeanRounded(v, s, n) ==
    LET off == 2 * n * v - 20 * s
    IN  /\ off <= n
        /\ 0 - n <= off
        /\ (off = n \/ off = 0 - n) =>
              IF (4 * s) % n = 0 THEN v % 2 = 0
              ELSE s >= 0 /\ v = RoundOfTwentieths((20 * s) \div n)

MeansRounded(stats, feats) ==
    /\ DOMAIN stats.avg_length = {feats[i].feature : i \in 1..Len(feats)}
    /\ \A t \in DOMAIN stats.avg_length :
          MeanRounded(stats.avg_length[t], LengthSum(feats, t), LengthCount(feats, t))

\* C7, amended: avg_length[T] is the mean of end - start + 1 over the retained
\* records of type T rounded to the nearest tenth; a tie goes to the even
\* tenth when the mean is a multiple of 1/4 (a double holds it exactly), and
\* otherwise to the side on which the double nearest the mean lies, which is
\* the tenth CPython's round gives (2.45 becomes 2.5, 2.55 becomes 2.5).
C7_MeanRounded ==
    /\ JustFiltered => MeansRounded(stats_filtered, features)
    /\ AllReturned => MeansRounded(stats_all, features)

C7_Witness ==
    /\ AllReturned
    /\ \E t \in DOMAIN stats_all.avg_length :
          /\ LengthCount(features, t) = 20
          /\ LengthSum(features, t) = 49
          /\ stats_all.avg_length[t] = 25

\* a line that parses to None
IsSkipLine(l) == ~IsData(Trimmed(l)) \/ FieldCount(Trimmed(l)) < 8

OnlySkipLines == \A i \in 1..Len(gff_file) : IsSkipLine(gff_file[i])

IsEmptyResult(stats) ==
    /\ stats.total_features = 0
    /\ DOMAIN stats.by_type = {}
    /\ DOMAIN stats.avg_length = {}
    /\ DOMAIN stats.strand_distribution = {}

\* C8: over a file whose lines are all empty, comments or shorter than 8
\* fields, the empty file among them, process_gff does not fail and returns
\* total_features 0 and three empty mappings.
C8_SkippedLinesCountNothing ==
    OnlySkipLines =>
        /\ pc # "raised"
        /\ FilteredReturned => IsEmptyResult(stats_filtered)
        /\ AllReturned => IsEmptyResult(stats_all)

C8_Witness ==
    /\ AllReturned
    /\ OnlySkipLines
    /\ Len(gff_file) = 3
    /\ \E i \in 1..3 : Trimmed(gff_file[i]) = <<>>
    /\ \E i \in 1..3 : Len(gff_file[i]) > 0 /\ gff_file[i][1] = HASH
    /\ \E i \in 1..3 : IsData(Trimmed(gff_file[i]))
    /\ IsEmptyResult(stats_all)

\* C9: the handle is open while the loop reads and at no other time: it is
\* released when the loop ends and when a line raises, so no call ends with
\* it open and no line is read once it is released.
C9_HandleReleased ==
    /\ pc = "loop" => f_open
    /\ pc \in {"call", "stats", "raised", "done"} => ~f_open

C9_Witness ==
    /\ pc = "raised"
    /\ ~f_open
    /\ pos > 2
    /\ parsed.tag = "ValueError"

AllPositive(stats) == \A t \in DOMAIN stats.avg_length : stats.avg_length[t] > 0

EndsAfterStarts(feats) == \A i \in 1..Len(feats) : feats[i].end >= feats[i].start

\* C10, as stated: every value of avg_length of a returned result is above 0.
C10_AveragesPositive ==
    /\ FilteredReturned => AllPositive(stats_filtered)
    /\ AllReturned => AllPositive(stats_all)

\* C10, amended: when every retained record has end >= start, every value of
\* avg_length of the returned result is above 0.
C10_AveragesPositiveInOrder ==
    /\ JustFiltered /\ EndsAfterStarts(features) => AllPositive(stats_filtered)
    /\ AllReturned /\ EndsAfterStarts(features) => AllPositive(stats_all)

C10_Witness ==
    /\ AllReturned
    /\ EndsAfterStarts(features)
    /\ \E i \in 1..Len(features) : features[i].end = features[i].start
    /\ DOMAIN stats_all.avg_length # {}
    /\ AllPositive(stats_all)

====
